---- MODULE Spec2Model ----
(***************************************************************************)
(* TextChunker: the chunk navigation and deduplication state machine of    *)
(* the three front-ends                                                    *)
(*   "cli"  : src/src/cli/cli.cpp   (plain command loop, Qt clipboard)     *)
(*   "xcli" : src/src/cli/xcli.cpp  (dedup command loop, X11 clipboard)    *)
(*   "gui"  : src/src/gui.cpp       (Qt window, key events, spin box)      *)
(* A text is a sequence of one-character strings; a chunk is a SubSeq.     *)
(***************************************************************************)
EXTENDS Integers, Sequences, FiniteSets, TLC

(* ------------------------------ bounds --------------------------------- *)
\* longest text that load (file or clipboard) delivers
MaxLoadLen == 3
\* longest buffer the append command may build
MaxTextLen == 5
\* largest chunk size given on the command line (besides the default)
MaxChunkSize == 2

(* ------------------------- program constants --------------------------- *)
\* size_t chunk_size = 20000 in main
DefaultChunkSize == 20000
\* chunkSizeSpinBox->setRange(100, 100000)
SpinMin == 100
SpinMax == 100000

Variants == {"cli", "xcli", "gui"}
Chars == {"a", "b"}
NL == "\n"

RECURSIVE SeqsUpTo(_)
SeqsUpTo(n) ==
  IF n = 0 THEN {<<>>}
  ELSE LET S == SeqsUpTo(n - 1)
       IN  S \cup {Append(s, c) : s \in {x \in S : Len(x) = n - 1}, c \in Chars}

\* what a file or the clipboard may hold at load time: the empty text and,
\* the two characters being interchangeable, the texts that begin with "a"
LoadTexts == {t \in SeqsUpTo(MaxLoadLen) : t = <<>> \/ t[1] = "a"}
\* command line chunk sizes: main rejects 0 before the engine is constructed
InitSizes == (1..MaxChunkSize) \cup {DefaultChunkSize}
\* values the spin box can take inside its range
SpinValues == {SpinMin, SpinMin + 1, SpinMax}

Min(a, b) == IF a < b THEN a ELSE b
Max(a, b) == IF a > b THEN a ELSE b

(* --------------------------- decimal input ----------------------------- *)
\* a command made of digits is kept as its digit sequence, so that the
\* conversions std::stoi / std::stoul are computed, range check included
IntMaxDigits == <<2, 1, 4, 7, 4, 8, 3, 6, 4, 7>>
ULongMaxDigits == <<1, 8, 4, 4, 6, 7, 4, 4, 0, 7, 3, 7, 0, 9, 5, 5, 1, 6, 1, 5>>

RECURSIVE StripZeros(_)
StripZeros(ds) ==
  IF Len(ds) > 1 /\ Head(ds) = 0 THEN StripZeros(Tail(ds)) ELSE ds

RECURSIVE DigitsValue(_)
DigitsValue(ds) ==
  IF ds = <<>> THEN 0
  ELSE 10 * DigitsValue(SubSeq(ds, 1, Len(ds) - 1)) + ds[Len(ds)]

\* a > b for digit sequences of the same length
RECURSIVE DigitsGreater(_, _)
DigitsGreater(a, b) ==
  IF a = <<>> THEN FALSE
  ELSE IF Head(a) # Head(b) THEN Head(a) > Head(b)
  ELSE DigitsGreater(Tail(a), Tail(b))

ExceedsDigits(ds, max) ==
  LET s == StripZeros(ds)
  IN  \/ Len(s) > Len(max)
      \/ Len(s) = Len(max) /\ DigitsGreater(s, max)

\* the value of a digit line; a number of more than nine digits is stood
\* for by its leading nine digits, which keeps it above every length and
\* chunk count it is compared with
Leading(ds) == LET s == StripZeros(ds) IN DigitsValue(SubSeq(s, 1, Min(Len(s), 9)))

\* std::stoi: throws std::out_of_range above INT_MAX
StoiThrows(ds) == ExceedsDigits(ds, IntMaxDigits)
Stoi(ds) == Leading(ds)

\* std::stoul: throws std::out_of_range above ULONG_MAX
StoulThrows(ds) == ExceedsDigits(ds, ULongMaxDigits)
Stoul(ds) == Leading(ds)

(* ------------------------------ state ---------------------------------- *)
VARIABLES
  variant,        \* which front-end runs
  text,           \* std::string text
  chunk_size,     \* size_t chunk_size
  tail_mode,      \* bool tail_mode
  inverted,       \* bool inverted
  current_chunk,  \* int current_chunk
  total_chunks,   \* int total_chunks
  used_chunks,    \* std::set<std::string> used_chunks (xcli)
  clipboard,      \* the text this program put on the system clipboard
  spin,           \* the value shown by chunkSizeSpinBox (gui)
  read_task,      \* the std::async task of getClipboard (cli)
  pc,             \* where the front-end is
  last_cmd        \* the command or key handled last ("none" after a copy step)

vars == <<variant, text, chunk_size, tail_mode, inverted, current_chunk,
          total_chunks, used_chunks, clipboard, spin, read_task, pc, last_cmd>>

engine == <<text, chunk_size, tail_mode, inverted, current_chunk,
            total_chunks, used_chunks>>

NoCmd == "none"

\* the clipboard when it holds something this program did not write: before
\* the first write, and after a setClipboard that failed (setX11Clipboard
\* fails when another window owns the selection)
Foreign == <<"?">>

\* pc = "load"        before loadText / before the window is constructed
\*      "reading"     cli: getClipboard waits in fut.wait_for
\*      "read_timed_out" cli: getClipboard has taken the timeout branch and
\*                    is at return "", where fut is destroyed
\*      "copy"        top of the run() loop, before copyToClipboard
\*      "prompt"      run() waits in std::getline
\*      "events"      the Qt event loop waits for a key or a spin box change
\*      "load_failed" exit code 1
\*      "quit"        q, Q, quit, Esc
\*      "auto_exit"   xcli: All chunks processed
\*      "end_exit"    xcli: Reached end of text
\*      "terminated"  std::terminate after an uncaught exception
\*      "hung"        findNextUnusedChunk repeats the same iteration for ever
Loaded == pc \notin {"load", "reading", "read_timed_out", "load_failed"}

\* read_task = "none"     no task
\*             "running"  clipboard->text() has not returned yet
\*             "stuck"    clipboard->text() never returns (the owner of the
\*                        clipboard does not answer)
\*             "finished" the task has returned its text
NoTask == "none"

(* ----------------------------- the engine ------------------------------ *)
\* tail_mode ^ inverted
Reverse == tail_mode # inverted

\* a variant of TotalFor that rounds down
TotalForFloor(len, size) ==
  LET t == len \div size
  IN  IF t = 0 THEN 1 ELSE t

\* recalculateChunks / recalcChunks: the chunk count for a length and a size
TotalFor(len, size) ==
  LET t == (len + size - 1) \div size
  IN  IF t = 0 THEN 1 ELSE t

\* a variant of Clamp without the upper clamp
ClampLowerOnly(cur, total) == IF cur < 1 THEN 1 ELSE cur

\* recalculateChunks / recalcChunks: the two clamps of current_chunk
Clamp(cur, total) ==
  LET c == IF cur > total THEN total ELSE cur
  IN  IF c < 1 THEN 1 ELSE c

\* a variant of StartPos that ignores the anchoring
StartPosForwardOnly(pos, rev, len, size, total) == (pos - 1) * size

\* getChunkAtPosition: start_pos and end_pos of chunk pos under an anchoring
StartPos(pos, rev, len, size, total) ==
  IF rev
  THEN LET e == len - (total - pos) * size
       IN  IF e > size THEN e - size ELSE 0
  ELSE (pos - 1) * size

\* a variant of EndPos whose forward end is not cut at the buffer's length
EndPosNoMin(pos, rev, len, size, total) ==
  IF rev
  THEN len - (total - pos) * size
  ELSE (pos - 1) * size + size

EndPos(pos, rev, len, size, total) ==
  IF rev
  THEN len - (total - pos) * size
  ELSE Min((pos - 1) * size + size, len)

\* std::string::substr(start, count)
Substr(s, start, count) == SubSeq(s, start + 1, Min(start + count, Len(s)))

ChunkOf(t, size, total, rev, pos) ==
  IF pos < 1 \/ pos > total THEN <<>>
  ELSE LET s == StartPos(pos, rev, Len(t), size, total)
           e == EndPos(pos, rev, Len(t), size, total)
       IN  Substr(t, s, e - s)

getChunkAtPosition(pos) == ChunkOf(text, chunk_size, total_chunks, Reverse, pos)
getCurrentChunk == getChunkAtPosition(current_chunk)

\* a variant of NextPos that ignores the direction
NextPosForward(cur, rev, total) == Min(total, cur + 1)

\* the step of Enter/N and of the scan
NextPos(cur, rev, total) ==
  IF rev THEN Max(1, cur - 1) ELSE Min(total, cur + 1)

\* the step of P
PrevPos(cur, rev, total) ==
  IF rev THEN Min(total, cur + 1) ELSE Max(1, cur - 1)

\* F
FirstPos(rev, total) == IF rev THEN total ELSE 1

\* a variant of LastPos that ignores the direction
LastPosForward(rev, total) == total

\* L
LastPos(rev, total) == IF rev THEN 1 ELSE total

\* variants of MirrorPos: the position kept, and the mirror one too low
MirrorPosKeep(cur, total) == cur
MirrorPosOffByOne(cur, total) == total - cur

\* I
MirrorPos(cur, total) == total - cur + 1

\* a variant of isChunkUsed that finds nothing
isChunkUsedNever(chunk) == FALSE

isChunkUsed(chunk) == chunk \in used_chunks
hasUnusedChunks == Cardinality(used_chunks) < total_chunks
\* a variant of isAtFinalChunk that ignores the direction
isAtFinalChunkForward == current_chunk = total_chunks

isAtFinalChunk == IF Reverse THEN current_chunk = 1 ELSE current_chunk = total_chunks

\* findNextUnusedChunk, started with current_chunk = cur and start_chunk =
\* start: the position returned (-1 for none) and the current_chunk it
\* leaves. res = 0 stands for no return at all: the step left current_chunk
\* where it was, away from start_chunk, so every later iteration is the same.
RECURSIVE ScanFrom(_, _)
ScanFrom(cur, start) ==
  IF ~isChunkUsed(getChunkAtPosition(cur))
  THEN [res |-> cur, cur |-> cur]
  ELSE LET nxt == NextPos(cur, Reverse, total_chunks)
       IN  IF nxt = start THEN [res |-> -1, cur |-> nxt]
           ELSE IF nxt = cur THEN [res |-> 0, cur |-> nxt]
           ELSE ScanFrom(nxt, start)

findNextUnusedChunk == ScanFrom(current_chunk, current_chunk)

(* -------------------------------- Init --------------------------------- *)
\* the engine as its constructor leaves it; total_chunks is not set by the
\* cli constructors and is written by loadText before anything reads it
Init ==
  /\ variant \in Variants
  /\ tail_mode \in BOOLEAN
  /\ chunk_size \in InitSizes
  /\ text = <<>>
  /\ inverted = FALSE
  /\ current_chunk = 1
  /\ total_chunks = 0
  /\ used_chunks = {}
  /\ clipboard = Foreign
  /\ spin = Max(SpinMin, Min(SpinMax, chunk_size))
  /\ read_task = NoTask
  /\ pc = "load"
  /\ last_cmd = NoCmd


(* ----------------------- loading and the copy step --------------------- *)
\* updateUI: the chunk now current goes to the clipboard
UpdateUI == clipboard' = getCurrentChunk'

\* a variant of LoadPosition that ignores tail_mode
LoadPositionHead(total) == Clamp(current_chunk, total)

\* loadText / the window's constructor: recalculateChunks clamps the
\* position, then if (tail_mode) current_chunk = total_chunks
LoadPosition(total) ==
  IF tail_mode THEN total ELSE Clamp(current_chunk, total)

\* cli, xcli: main calls loadText, then run(); gui: main reads the text and
\* constructs the window (recalcChunks, tail start, updateUI)
LoadText(t) ==
  IF t = <<>>
  THEN /\ pc' = "load_failed"
       /\ UNCHANGED <<text, current_chunk, total_chunks, clipboard>>
  ELSE LET total == TotalFor(Len(t), chunk_size)
       IN  /\ text' = t
           /\ total_chunks' = total
           /\ current_chunk' = LoadPosition(total)
           /\ IF variant = "gui"
              THEN pc' = "events" /\ UpdateUI
              ELSE pc' = "copy" /\ UNCHANGED clipboard

\* the text comes from a file, or from a clipboard that answers
Load ==
  /\ pc = "load"
  /\ UNCHANGED <<variant, read_task, chunk_size, tail_mode, inverted,
                 used_chunks, spin, last_cmd>>
  /\ \E t \in LoadTexts : LoadText(t)

(* ------------------ cli.cpp getClipboard(timeout_ms) ------------------- *)
\* everything but the reader's state
AllButRead == <<variant, text, chunk_size, tail_mode, inverted, current_chunk,
                total_chunks, used_chunks, clipboard, spin, last_cmd>>

\* std::async(std::launch::async, ...): the task starts on its own thread
\* and getClipboard goes on to fut.wait_for
ReadStart ==
  /\ pc = "load" /\ variant = "cli"
  /\ pc' = "reading"
  /\ read_task' \in {"running", "stuck"}
  /\ UNCHANGED AllButRead

\* the task's thread: clipboard->text() returns
TaskFinish ==
  /\ read_task = "running"
  /\ read_task' = "finished"
  /\ UNCHANGED <<AllButRead, pc>>

\* wait_for returns ready: fut.get() is the text, loadText goes on with it
ReadReady ==
  /\ pc = "reading" /\ read_task = "finished"
  /\ read_task' = NoTask
  /\ UNCHANGED <<variant, chunk_size, tail_mode, inverted, used_chunks, spin,
                 last_cmd>>
  /\ \E t \in LoadTexts : LoadText(t)

\* wait_for returns timeout: the warning is printed and return "" is reached
ReadTimeout ==
  /\ pc = "reading" /\ read_task \in {"running", "stuck"}
  /\ pc' = "read_timed_out"
  /\ UNCHANGED <<AllButRead, read_task>>

\* ~future() of the future std::async returned: it returns when the task
\* has finished, not before
FutureReleased == read_task = "finished"

\* return "": fut is destroyed, getClipboard returns the empty string and
\* loadText fails with Clipboard is empty
ReadReturnsEmpty ==
  /\ pc = "read_timed_out" /\ FutureReleased
  /\ read_task' = NoTask
  /\ UNCHANGED <<variant, chunk_size, tail_mode, inverted, used_chunks, spin,
                 last_cmd>>
  /\ LoadText(<<>>)

\* cli.cpp run(): copyToClipboard, showStatus, then the prompt
CopyCli ==
  /\ pc = "copy" /\ variant = "cli"
  /\ clipboard' = IF getCurrentChunk # <<>> THEN getCurrentChunk ELSE clipboard
  /\ pc' = "prompt"
  /\ last_cmd' = NoCmd
  /\ UNCHANGED <<variant, read_task, engine, spin>>

\* xcli.cpp run(): copyToClipboard, showStatus, the auto-exit check, then
\* the prompt. ok is setClipboard's result, which copyToClipboard drops.
CopyX ==
  /\ pc = "copy" /\ variant = "xcli"
  /\ UNCHANGED <<variant, read_task, text, chunk_size, tail_mode, inverted, total_chunks, spin>>
  /\ \E ok \in BOOLEAN :
       LET chunk == getCurrentChunk
           scans == chunk # <<>> /\ isChunkUsed(chunk)
           r     == findNextUnusedChunk
           cur   == IF scans THEN (IF r.res > 0 THEN r.res ELSE r.cur)
                    ELSE current_chunk
           sent  == IF chunk = <<>> THEN <<>>
                    ELSE IF ~scans THEN chunk
                    ELSE IF r.res > 0 THEN getChunkAtPosition(r.res)
                    ELSE <<>>
           wrote == (chunk # <<>>) /\ (~scans \/ r.res > 0)
           used  == IF wrote THEN used_chunks \cup {sent} ELSE used_chunks
       IN  /\ current_chunk' = cur
           /\ used_chunks' = used
           /\ clipboard' = IF ~wrote THEN clipboard
                           ELSE IF ok THEN sent ELSE Foreign
           /\ pc' = IF scans /\ r.res = 0 THEN "hung"
                    ELSE IF isAtFinalChunk' /\ ~hasUnusedChunks'
                    THEN "auto_exit"
                    ELSE "prompt"
  /\ last_cmd' = NoCmd

(* ------------------------- processCommand ------------------------------ *)
\* the bounds check that ends processCommand
BoundsCheck(cur, total) ==
  LET c == IF cur < 1 THEN 1 ELSE cur
  IN  IF c > total THEN total ELSE c

\* how processCommand ends: with the bounds check, which those branches of
\* xcli.cpp that return true at once (early) do not reach
EndCheck(cur, total, early) ==
  IF early /\ variant = "xcli" THEN cur ELSE BoundsCheck(cur, total)

\* processCommand returned true: xcli's check after the command, then the
\* top of the loop
Continue ==
  pc' = IF variant = "xcli" /\ isAtFinalChunk' /\ getCurrentChunk' = <<>>
        THEN "end_exit"
        ELSE "copy"

\* a branch of processCommand that only moves the position or flips inverted
Navigate(op, cur, inv) ==
  /\ pc = "prompt"
  /\ current_chunk' = BoundsCheck(cur, total_chunks)
  /\ inverted' = inv
  /\ last_cmd' = op
  /\ UNCHANGED <<variant, read_task, text, chunk_size, tail_mode, total_chunks,
                 used_chunks, clipboard, spin>>
  /\ Continue

\* the empty line: cli steps like N; xcli looks for the next unused chunk
\* and steps like N when there is none
CmdEnter ==
  /\ pc = "prompt"
  /\ UNCHANGED <<variant, read_task, text, chunk_size, tail_mode, inverted, total_chunks,
                 used_chunks, clipboard, spin>>
  /\ IF variant = "cli"
     THEN /\ current_chunk' =
               BoundsCheck(NextPos(current_chunk, Reverse, total_chunks), total_chunks)
          /\ pc' = "copy"
     ELSE LET r == findNextUnusedChunk
          IN  IF r.res = 0
              THEN current_chunk' = r.cur /\ pc' = "hung"
              ELSE /\ current_chunk' =
                        BoundsCheck(IF r.res # -1 THEN r.res
                                    ELSE NextPos(r.cur, Reverse, total_chunks),
                                    total_chunks)
                   /\ Continue
  /\ last_cmd' = ""

CmdPrev == Navigate("P", PrevPos(current_chunk, Reverse, total_chunks), inverted)
CmdNext == Navigate("N", NextPos(current_chunk, Reverse, total_chunks), inverted)
\* a variant of CmdFirst that also flips inverted
CmdFirstFlips == Navigate("F", FirstPos(Reverse, total_chunks), ~inverted)

CmdFirst == Navigate("F", FirstPos(Reverse, total_chunks), inverted)
CmdLast == Navigate("L", LastPos(Reverse, total_chunks), inverted)
CmdInvert == Navigate("I", MirrorPos(current_chunk, total_chunks), ~inverted)

\* a branch of processCommand that prints and changes nothing
Report(op) ==
  /\ pc = "prompt"
  /\ current_chunk' = EndCheck(current_chunk, total_chunks, TRUE)
  /\ last_cmd' = op
  /\ UNCHANGED <<variant, read_task, text, chunk_size, tail_mode, inverted, total_chunks,
                 used_chunks, clipboard, spin>>
  /\ Continue

\* any other line prints the command list; in cli.cpp this is also what U
\* and reset do
CmdHelp == Report("?")

\* xcli U: prints the usage count
CmdUsage == variant = "xcli" /\ Report("U")

\* a variant of CmdReset that forgets to clear
CmdResetKeeps ==
  /\ pc = "prompt" /\ variant = "xcli"
  /\ last_cmd' = "reset"
  /\ UNCHANGED <<variant, read_task, engine, clipboard, spin>>
  /\ Continue

\* xcli reset: every chunk counts as unused again
CmdReset ==
  /\ pc = "prompt" /\ variant = "xcli"
  /\ used_chunks' = {}
  /\ last_cmd' = "reset"
  /\ UNCHANGED <<variant, read_task, text, chunk_size, tail_mode, inverted, current_chunk,
                 total_chunks, clipboard, spin>>
  /\ Continue

\* the lines typed after A, up to the empty line: each one non-empty
AppendInputs == {<<>>, << <<"a">> >>, << <<"b">>, <<"a">> >>}

\* a variant of JoinLines without the newlines
RECURSIVE JoinLinesNoNewline(_)
JoinLinesNoNewline(lines) ==
  IF lines = <<>> THEN <<>>
  ELSE Head(lines) \o JoinLinesNoNewline(Tail(lines))

\* additional_text += line + "\n" for every line
RECURSIVE JoinLines(_)
JoinLines(lines) ==
  IF lines = <<>> THEN <<>>
  ELSE Head(lines) \o <<NL>> \o JoinLines(Tail(lines))

\* A: cli.cpp inline, xcli.cpp appendText
CmdAppend(lines) ==
  /\ pc = "prompt"
  /\ LET additional_text == JoinLines(lines)
         total == TotalFor(Len(text) + Len(additional_text), chunk_size)
     IN  /\ Len(text) + Len(additional_text) <= MaxTextLen
         /\ IF additional_text # <<>>
            THEN /\ text' = text \o additional_text
                 /\ total_chunks' = total
                 /\ current_chunk' = EndCheck(Clamp(current_chunk, total), total, TRUE)
            ELSE /\ current_chunk' = EndCheck(current_chunk, total_chunks, TRUE)
                 /\ UNCHANGED <<text, total_chunks>>
  /\ last_cmd' = "A"
  /\ UNCHANGED <<variant, read_task, chunk_size, tail_mode, inverted, used_chunks,
                 clipboard, spin>>
  /\ Continue

\* R: cli.cpp writes the current chunk whatever it is (the Qt setClipboard
\* always succeeds); xcli.cpp writes it when it is not empty and drops the
\* result ok of setClipboard
CmdRecopy ==
  /\ pc = "prompt"
  /\ \E ok \in BOOLEAN :
       clipboard' = IF variant = "cli" THEN getCurrentChunk
                    ELSE IF getCurrentChunk = <<>> THEN clipboard
                    ELSE IF ok THEN getCurrentChunk ELSE Foreign
  /\ current_chunk' = BoundsCheck(current_chunk, total_chunks)
  /\ last_cmd' = "R"
  /\ UNCHANGED <<variant, read_task, text, chunk_size, tail_mode, inverted, total_chunks,
                 used_chunks, spin>>
  /\ Continue

\* the digit strings typed after $ and as a bare number
SmallNumbers == {<<d>> : d \in 0..(MaxTextLen + 1)} \cup {<<0, 2>>}
GotoInputs ==
  SmallNumbers \cup {IntMaxDigits, <<2, 1, 4, 7, 4, 8, 3, 6, 4, 8>>}
ResizeInputs ==
  SmallNumbers \cup {ULongMaxDigits, [ULongMaxDigits EXCEPT ![20] = 6]}

\* a variant of ValidSize without the upper limit
ValidSizeAnyPositive(new_size) == new_size > 0

\* new_size > 0 && new_size <= text.length()
ValidSize(new_size) == new_size > 0 /\ new_size <= Len(text)

\* $<digits>
CmdResize(ds) ==
  /\ pc = "prompt"
  /\ UNCHANGED <<variant, read_task, text, tail_mode, inverted, clipboard, spin>>
  /\ last_cmd' = "$"
  /\ IF StoulThrows(ds)
     THEN /\ pc' = "terminated"
          /\ UNCHANGED <<chunk_size, used_chunks, total_chunks, current_chunk>>
     ELSE LET new_size == Stoul(ds)
              total == TotalFor(Len(text), new_size)
          IN  /\ IF ValidSize(new_size)
                 THEN /\ chunk_size' = new_size
                      /\ used_chunks' = IF variant = "xcli" THEN {} ELSE used_chunks
                      /\ total_chunks' = total
                      /\ current_chunk' = BoundsCheck(Clamp(current_chunk, total), total)
                 ELSE /\ current_chunk' = EndCheck(current_chunk, total_chunks, TRUE)
                      /\ UNCHANGED <<chunk_size, used_chunks, total_chunks>>
              /\ Continue

\* q, Q, quit
CmdQuit ==
  /\ pc = "prompt"
  /\ pc' = "quit"
  /\ last_cmd' = "q"
  /\ UNCHANGED <<variant, read_task, engine, clipboard, spin>>

\* a line of digits: go to that chunk
CmdGoto(ds) ==
  /\ pc = "prompt"
  /\ UNCHANGED <<variant, read_task, text, chunk_size, tail_mode, inverted, total_chunks,
                 used_chunks, clipboard, spin>>
  /\ last_cmd' = "goto"
  /\ IF StoiThrows(ds)
     THEN pc' = "terminated" /\ UNCHANGED current_chunk
     ELSE LET target == Stoi(ds)
          IN  /\ current_chunk' =
                   IF target >= 1 /\ target <= total_chunks
                   THEN BoundsCheck(target, total_chunks)
                   ELSE EndCheck(current_chunk, total_chunks, TRUE)
              /\ Continue

(* --------------------------- gui.cpp handlers -------------------------- *)
\* a key that moves the position or flips inverted, then updateUI
KeyNavigate(op, cur, inv) ==
  /\ pc = "events" /\ variant = "gui"
  /\ current_chunk' = cur
  /\ inverted' = inv
  /\ last_cmd' = op
  /\ UNCHANGED <<variant, read_task, text, chunk_size, tail_mode, total_chunks,
                 used_chunks, spin, pc>>
  /\ UpdateUI

KeyNext == KeyNavigate("N", NextPos(current_chunk, Reverse, total_chunks), inverted)
KeyPrev == KeyNavigate("P", PrevPos(current_chunk, Reverse, total_chunks), inverted)
KeyInvert == KeyNavigate("I", MirrorPos(current_chunk, total_chunks), ~inverted)
KeyFirst == KeyNavigate("F", FirstPos(Reverse, total_chunks), inverted)
KeyLast == KeyNavigate("L", LastPos(Reverse, total_chunks), inverted)

\* R, C: recopy without updateUI
KeyRecopy ==
  /\ pc = "events" /\ variant = "gui"
  /\ clipboard' = getCurrentChunk
  /\ last_cmd' = "R"
  /\ UNCHANGED <<variant, read_task, engine, spin, pc>>

\* V: loadNewText. newText is what the clipboard holds by then: the chunk
\* this window wrote, or a text the user copied in another program.
KeyLoad(newText) ==
  /\ pc = "events" /\ variant = "gui"
  /\ UNCHANGED <<variant, read_task, chunk_size, tail_mode, inverted, used_chunks, spin,
                 pc>>
  /\ last_cmd' = "V"
  /\ IF newText = <<>>
     THEN UNCHANGED <<text, current_chunk, total_chunks, clipboard>>
     ELSE LET total == TotalFor(Len(newText), chunk_size)
          IN  /\ text' = newText
              /\ total_chunks' = total
              /\ current_chunk' = IF tail_mode THEN total ELSE Clamp(1, total)
              /\ UpdateUI

\* Q, Esc
KeyQuit ==
  /\ pc = "events" /\ variant = "gui"
  /\ pc' = "quit"
  /\ last_cmd' = "q"
  /\ UNCHANGED <<variant, read_task, engine, clipboard, spin>>

\* onChunkSizeChanged: valueChanged fires when the spin box shows a new value
SpinChanged(v) ==
  /\ pc = "events" /\ variant = "gui"
  /\ v # spin
  /\ LET total == TotalFor(Len(text), v)
     IN  /\ spin' = v
         /\ chunk_size' = v
         /\ total_chunks' = total
         /\ current_chunk' = Clamp(current_chunk, total)
  /\ last_cmd' = "spin"
  /\ UNCHANGED <<variant, read_task, text, tail_mode, inverted, used_chunks, pc>>
  /\ UpdateUI

(* ------------------------------ the system ----------------------------- *)
Next ==
  \/ Load
  \/ ReadStart
  \/ TaskFinish
  \/ ReadReady
  \/ ReadTimeout
  \/ ReadReturnsEmpty
  \/ CopyCli
  \/ CopyX
  \/ CmdEnter
  \/ \E lines \in AppendInputs : CmdAppend(lines)
  \/ CmdRecopy
  \/ CmdUsage
  \/ CmdReset
  \/ CmdPrev
  \/ CmdNext
  \/ CmdFirst
  \/ CmdLast
  \/ CmdInvert
  \/ \E ds \in ResizeInputs : CmdResize(ds)
  \/ CmdQuit
  \/ \E ds \in GotoInputs : CmdGoto(ds)
  \/ CmdHelp
  \/ KeyNext
  \/ KeyPrev
  \/ KeyRecopy
  \/ KeyInvert
  \/ KeyFirst
  \/ KeyLast
  \/ \E newText \in LoadTexts \cup {clipboard} : KeyLoad(newText)
  \/ KeyQuit
  \/ \E v \in SpinValues : SpinChanged(v)

Spec == Init /\ [][Next]_vars

\* the session in which the user answers every prompt of xcli with an empty
\* line: run() takes its next step whenever it has one
InitAdvance == Init /\ variant = "xcli"

\* the whole system when every front-end takes its next step whenever it
\* has one
SpecFair == Spec /\ WF_vars(Next)
NextAdvance == Load \/ CopyX \/ CmdEnter
SpecAdvance == InitAdvance /\ [][NextAdvance]_vars /\ WF_vars(NextAdvance)

(* ======================================================================= *)
(*                               the claims                                *)
(* ======================================================================= *)
\* a command or a key is being handled in this step
Handling(op) == pc \in {"prompt", "events"} /\ last_cmd' = op

\* the offsets [start, end) of chunk pos of the current buffer under anchoring rev
Offsets(pos, rev) ==
  <<StartPos(pos, rev, Len(text), chunk_size, total_chunks),
    EndPos(pos, rev, Len(text), chunk_size, total_chunks)>>

RECURSIVE ConcatChunks(_, _)
ConcatChunks(p, rev) ==
  IF p > total_chunks THEN <<>>
  ELSE ChunkOf(text, chunk_size, total_chunks, rev, p) \o ConcatChunks(p + 1, rev)

RECURSIVE SumLengths(_, _)
SumLengths(p, rev) ==
  IF p > total_chunks THEN 0
  ELSE Len(ChunkOf(text, chunk_size, total_chunks, rev, p)) + SumLengths(p + 1, rev)

\* C1: under the forward and under the reverse anchoring, the chunks
\* 1..total_chunks of a loaded buffer are contiguous and do not overlap:
\* chunk 1 starts at offset 0, chunk p + 1 starts where chunk p ends, the
\* last chunk ends at the buffer's length; their lengths sum to the
\* buffer's length and their concatenation in index order is the buffer.
ChunksPartitionBuffer ==
  Loaded =>
    \A rev \in BOOLEAN :
      /\ Offsets(1, rev)[1] = 0
      /\ Offsets(total_chunks, rev)[2] = Len(text)
      /\ \A p \in 1..total_chunks : Offsets(p, rev)[1] <= Offsets(p, rev)[2]
      /\ \A p \in 1..(total_chunks - 1) : Offsets(p, rev)[2] = Offsets(p + 1, rev)[1]
      /\ \A p \in 1..total_chunks :
           ChunkOf(text, chunk_size, total_chunks, rev, p)
             = SubSeq(text, Offsets(p, rev)[1] + 1, Offsets(p, rev)[2])
      /\ SumLengths(1, rev) = Len(text)
      /\ ConcatChunks(1, rev) = text

\* C1 witness: a reverse-anchored buffer of three or more chunks with a
\* remainder, whose short first chunk has been copied out
ChunksPartitionWitness ==
  /\ pc = "prompt" /\ Reverse
  /\ total_chunks >= 3 /\ Len(text) % chunk_size # 0
  /\ current_chunk = 1 /\ clipboard = getCurrentChunk

\* the least n with n * size >= len
CeilDiv(len, size) == CHOOSE n \in 0..len : n * size >= len /\ (n - 1) * size < len

\* C2: in every state after a successful load total_chunks is
\* ceil(Len(text) / chunk_size), and at least 1 (1 when the buffer is
\* shorter than the chunk size).
TotalIsCeiling ==
  Loaded =>
    /\ total_chunks = CeilDiv(Len(text), chunk_size)
    /\ total_chunks >= 1
    /\ Len(text) < chunk_size => total_chunks = 1

\* C2 witness: an append has just grown the buffer to three or more chunks
\* with a remainder
TotalIsCeilingWitness ==
  /\ last_cmd = "A" /\ total_chunks >= 3 /\ Len(text) % chunk_size # 0

\* C3: in every state after a successful load 1 <= position <= totalChunks.
PositionInRange ==
  Loaded => 1 <= current_chunk /\ current_chunk <= total_chunks

\* C3 witness: a resize has just collapsed a buffer of three or more
\* characters to a single chunk
PositionInRangeWitness ==
  /\ last_cmd \in {"$", "spin"} /\ Len(text) >= 3
  /\ total_chunks = 1 /\ current_chunk = 1

\* C4 (as claimed): the next-unused scan returns from every state it is
\* started in. It fails: see ScanFrom.
ScanAlwaysReturns == pc # "hung"

\* the positions whose chunk content is not in used_chunks
UnusedPositions == {p \in 1..total_chunks : ~isChunkUsed(getChunkAtPosition(p))}

\* how many Next steps, wrapping round, lead from start to p
CyclicRank(start, p) ==
  IF Reverse THEN (start - p) % total_chunks ELSE (p - start) % total_chunks

\* the first unused position in the cyclic order that begins at start
CyclicFirstUnused(start) ==
  CHOOSE p \in UnusedPositions :
    \A q \in UnusedPositions : CyclicRank(start, p) <= CyclicRank(start, q)

\* this step runs findNextUnusedChunk: the empty line, or the copy step on
\* a chunk already used
ScanRuns ==
  /\ variant = "xcli"
  /\ \/ pc = "prompt" /\ last_cmd' = ""
     \/ pc = "copy" /\ getCurrentChunk # <<>> /\ isChunkUsed(getCurrentChunk)

\* C5 (as claimed): whenever the scan returns, it returns the first
\* position, in the cyclic order of Next that begins at the current
\* position, whose content is unused, and NoneFound only if every
\* position's content is used. It fails: the scan stops at the end of the
\* range instead of wrapping.
ScanFindsFirstUnusedCyclic ==
  [][ScanRuns =>
       /\ findNextUnusedChunk.res = -1 => UnusedPositions = {}
       /\ findNextUnusedChunk.res > 0 =>
            findNextUnusedChunk.res = CyclicFirstUnused(current_chunk)]_vars


\* the offsets of the current chunk
CurrentOffsets == Offsets(current_chunk, Reverse)

\* C6 (as claimed): Invert flips inverted, sets the position to
\* total_chunks - position + 1, and the chunk current afterwards covers the
\* same buffer offsets as the chunk current before.
InvertKeepsPhysicalChunk ==
  [][Handling("I") =>
       /\ inverted' = ~inverted
       /\ current_chunk' = total_chunks - current_chunk + 1
       /\ CurrentOffsets' = CurrentOffsets]_vars

\* C6 (amended): Invert flips inverted, sets the position to
\* total_chunks - position + 1, and the chunk current afterwards is the
\* mirror image of the chunk current before: the old chunk covering
\* [s, e), the new one covers [Len(text) - e, Len(text) - s).
InvertMirrorsChunk ==
  [][Handling("I") =>
       /\ inverted' = ~inverted
       /\ current_chunk' = total_chunks - current_chunk + 1
       /\ CurrentOffsets'[1] = Len(text) - CurrentOffsets[2]
       /\ CurrentOffsets'[2] = Len(text) - CurrentOffsets[1]
       /\ getCurrentChunk' = SubSeq(text, Len(text) - CurrentOffsets[2] + 1,
                                    Len(text) - CurrentOffsets[1])]_vars

\* C6 witness: an Invert has just been handled on a buffer of two or more
\* chunks with a remainder, and the current chunk is not its own mirror image
InvertMirrorsWitness ==
  /\ last_cmd = "I" /\ inverted
  /\ total_chunks >= 2 /\ Len(text) % chunk_size # 0
  /\ CurrentOffsets[1] + CurrentOffsets[2] # Len(text)

EngineRest == <<text, chunk_size, tail_mode, inverted, total_chunks, used_chunks>>

\* C8: Next and Prev move the position one step along the effective
\* direction and clamp: with tail_mode XOR inverted, Next gives
\* max(1, position - 1) and Prev min(total_chunks, position + 1); otherwise
\* Next gives min(total_chunks, position + 1) and Prev max(1, position - 1).
\* Nothing else of the engine changes, so Next at the terminal position and
\* Prev at the initial one leave the engine as it was, and the front-end
\* goes on.
NextPrevStepAndClamp ==
  [][/\ Handling("N") \/ (variant = "cli" /\ Handling("")) =>
          /\ current_chunk' =
               IF tail_mode # inverted
               THEN (IF current_chunk - 1 < 1 THEN 1 ELSE current_chunk - 1)
               ELSE (IF current_chunk + 1 > total_chunks THEN total_chunks
                     ELSE current_chunk + 1)
          /\ UNCHANGED EngineRest
          /\ pc' \in {"copy", "events"}
     /\ Handling("P") =>
          /\ current_chunk' =
               IF tail_mode # inverted
               THEN (IF current_chunk + 1 > total_chunks THEN total_chunks
                     ELSE current_chunk + 1)
               ELSE (IF current_chunk - 1 < 1 THEN 1 ELSE current_chunk - 1)
          /\ UNCHANGED EngineRest
          /\ pc' \in {"copy", "events"}]_vars

\* C8 witness: Next has just been handled at the terminal position of a
\* reverse traversal of two or more chunks
NextPrevWitness ==
  /\ last_cmd = "N" /\ Reverse /\ total_chunks >= 2 /\ current_chunk = 1

RECURSIVE Repeat(_, _, _)
\* the position after n steps of Next (fwd) or Prev from p
Repeat(fwd, p, n) ==
  IF n = 0 THEN p
  ELSE Repeat(fwd,
              IF fwd THEN NextPos(p, Reverse, total_chunks)
              ELSE PrevPos(p, Reverse, total_chunks),
              n - 1)

\* C9: with tail_mode XOR inverted, First sets the position to total_chunks
\* and Last to 1; otherwise First sets 1 and Last total_chunks. So
\* isAtFinalChunk() holds right after Last, the position after Last is
\* where repeated Next ends from every position, and the position after
\* First is where repeated Prev ends.
FirstLastPositions ==
  [][/\ Handling("F") =>
          /\ current_chunk' = IF tail_mode # inverted THEN total_chunks ELSE 1
          /\ \A p \in 1..total_chunks :
               Repeat(FALSE, p, total_chunks) = current_chunk'
          /\ UNCHANGED EngineRest
     /\ Handling("L") =>
          /\ current_chunk' = IF tail_mode # inverted THEN 1 ELSE total_chunks
          /\ isAtFinalChunk'
          /\ \A p \in 1..total_chunks :
               Repeat(TRUE, p, total_chunks) = current_chunk'
          /\ UNCHANGED EngineRest]_vars

\* C9 witness: Last has just been handled in a reverse traversal of two or
\* more chunks
FirstLastWitness ==
  /\ last_cmd = "L" /\ Reverse /\ total_chunks >= 2 /\ current_chunk = 1

\* the number a digit line stands for lies in 1..total_chunks
InChunkRange(ds) ==
  /\ Len(StripZeros(ds)) <= 9
  /\ DigitsValue(StripZeros(ds)) >= 1
  /\ DigitsValue(StripZeros(ds)) <= total_chunks

\* C10 (as claimed): GotoIndex(n) sets the position to n exactly when
\* 1 <= n <= total_chunks; for every other n it is rejected, the engine is
\* unchanged and the loop goes on. It fails for the n that std::stoi cannot
\* hold.
GotoInRangeOrRejected ==
  [][\A ds \in GotoInputs :
       CmdGoto(ds) =>
         IF InChunkRange(ds)
         THEN /\ current_chunk' = DigitsValue(StripZeros(ds))
              /\ UNCHANGED EngineRest
              /\ pc' = "copy"
         ELSE /\ UNCHANGED engine
              /\ pc' = "copy"]_vars

\* the number a digit line stands for lies in 1..Len(text)
SizeInRange(ds) ==
  /\ Len(StripZeros(ds)) <= 9
  /\ DigitsValue(StripZeros(ds)) >= 1
  /\ DigitsValue(StripZeros(ds)) <= Len(text)

\* what a successful resize to the size of digit line ds leaves
ResizeDone(ds) ==
  /\ chunk_size' = DigitsValue(StripZeros(ds))
  /\ total_chunks' = CeilDiv(Len(text), chunk_size')
  /\ DigitsValue(StripZeros(ds)) = Len(text) => total_chunks' = 1
  /\ current_chunk' = IF current_chunk > total_chunks' THEN total_chunks'
                      ELSE current_chunk
  /\ UNCHANGED <<text, tail_mode, inverted>>
  /\ pc' = "copy"

\* C11 (as claimed): in cli and xcli, resize(newSize) succeeds exactly when
\* 0 < newSize <= Len(text): chunk_size becomes newSize, total_chunks is
\* recomputed (1 for newSize = Len(text)) and the position reclamped; every
\* other newSize is rejected with the whole engine unchanged and the loop
\* going on. It fails for the newSize that std::stoul cannot hold.
ResizeInRangeOrRejected ==
  [][\A ds \in ResizeInputs :
       CmdResize(ds) =>
         IF SizeInRange(ds) THEN ResizeDone(ds)
         ELSE UNCHANGED engine /\ pc' = "copy"]_vars

\* the part of C11 that holds: the same for the digit lines std::stoul
\* converts
ResizeValidOrRejected ==
  [][\A ds \in ResizeInputs :
       CmdResize(ds) /\ ~StoulThrows(ds) =>
         IF SizeInRange(ds) THEN ResizeDone(ds)
         ELSE UNCHANGED engine /\ pc' = "copy"]_vars

\* a resize to exactly the buffer's length has just collapsed three or more
\* chunks into one
ResizeValidWitness ==
  /\ variant \in {"cli", "xcli"} /\ last_cmd = "$" /\ pc = "copy"
  /\ chunk_size = Len(text) /\ Len(text) >= 3 /\ total_chunks = 1

\* this step is a resize that the size test lets through
ResizeSucceeds ==
  \E ds \in ResizeInputs : CmdResize(ds) /\ SizeInRange(ds)

\* C12: in xcli used_chunks is empty right after every successful resize and
\* after every reset; every other command (navigation, invert, goto, append,
\* recopy, usage, help, a rejected resize) leaves it as it was, and the copy
\* step only adds to it.
ConsumedSetCleared ==
  [][variant = "xcli" =>
       /\ Handling("reset") => used_chunks' = {}
       /\ ResizeSucceeds => used_chunks' = {}
       /\ pc = "prompt" /\ ~Handling("reset") /\ ~ResizeSucceeds =>
            used_chunks' = used_chunks
       /\ pc = "copy" => used_chunks \subseteq used_chunks']_vars

\* C12 witness: a successful resize has just emptied used_chunks (at a prompt
\* the set holds at least the chunk copied last)
ConsumedSetWitness ==
  /\ variant = "xcli" /\ last_cmd = "$" /\ pc = "copy"
  /\ used_chunks = {} /\ total_chunks >= 2

\* C13: a load of the empty text fails (exit code 1) and nothing is handled
\* afterwards; a load of a non-empty text sets the buffer, total_chunks as
\* the ceiling, the position total_chunks in tail mode and 1 otherwise, and
\* leaves inverted false; so the buffer is non-empty in every state after a
\* successful load.
LoadSetsStart ==
  /\ [][/\ ~Loaded /\ pc' # pc =>
             \/ /\ pc' \in {"reading", "read_timed_out"}
                /\ UNCHANGED engine
             \/ /\ pc' = "load_failed"
                /\ UNCHANGED engine
             \/ /\ pc' \in {"copy", "events"}
                /\ text' # <<>>
                /\ total_chunks' = CeilDiv(Len(text'), chunk_size')
                /\ current_chunk' = IF tail_mode' THEN total_chunks' ELSE 1
                /\ inverted' = FALSE
                /\ UNCHANGED <<tail_mode, chunk_size>>
        /\ pc = "load_failed" => UNCHANGED vars
        /\ pc' = "load_failed" => ~Loaded /\ text = <<>>]_vars
  /\ [](Loaded => text # <<>>)
  /\ [](pc = "load_failed" => text = <<>>)

\* C13 witness: a tail-mode load of a text of three or more chunks has just
\* put the position on the last chunk
LoadSetsStartWitness ==
  /\ pc = "copy" /\ last_cmd = NoCmd /\ tail_mode /\ ~inverted
  /\ total_chunks >= 3 /\ current_chunk = total_chunks /\ used_chunks = {}
  /\ clipboard = Foreign

\* added is the lines in order, each followed by a newline
RECURSIVE LinesThenNewlines(_, _)
LinesThenNewlines(added, lines) ==
  IF lines = <<>> THEN added = <<>>
  ELSE LET h == Head(lines)
       IN  /\ Len(added) > Len(h)
           /\ SubSeq(added, 1, Len(h)) = h
           /\ added[Len(h) + 1] = NL
           /\ LinesThenNewlines(SubSeq(added, Len(h) + 2, Len(added)), Tail(lines))

\* C14: append with one or more lines replaces the buffer by the old buffer
\* followed by the lines, each followed by a newline; total_chunks becomes
\* the ceiling for the longer buffer and the position stays inside
\* 1..total_chunks. Append with no line changes nothing of buffer,
\* total_chunks, position, inverted and chunk_size. Neither touches
\* chunk_size or inverted.
AppendExtendsBuffer ==
  [][\A lines \in AppendInputs :
       CmdAppend(lines) =>
         /\ UNCHANGED <<chunk_size, inverted, tail_mode>>
         /\ IF lines = <<>>
            THEN UNCHANGED <<text, total_chunks, current_chunk>>
            ELSE /\ Len(text') > Len(text)
                 /\ SubSeq(text', 1, Len(text)) = text
                 /\ LinesThenNewlines(SubSeq(text', Len(text) + 1, Len(text')), lines)
                 /\ total_chunks' = CeilDiv(Len(text'), chunk_size)
                 /\ total_chunks' >= total_chunks
                 /\ 1 <= current_chunk' /\ current_chunk' <= total_chunks']_vars

\* C14 witness: lines have just been appended, the buffer holds two newlines
\* and three or more chunks
AppendWitness ==
  /\ last_cmd = "A" /\ total_chunks >= 3
  /\ text[Len(text)] = NL
  /\ \E i \in 1..(Len(text) - 1) : text[i] = NL

\* the chunk lengths of a buffer of len characters cut at size under
\* anchoring rev
ChunkSizes(len, size, rev) ==
  LET t == [i \in 1..len |-> "a"]
      total == TotalFor(len, size)
  IN  [p \in 1..total |-> Len(ChunkOf(t, size, total, rev, p))]

\* C15: under forward anchoring every chunk before the last has exactly
\* chunk_size characters and the last has between 1 and chunk_size; under
\* reverse anchoring every chunk after the first has exactly chunk_size
\* characters and the first has between 1 and chunk_size. 25 characters cut
\* at 10 give the sizes 10, 10, 5 forward and 5, 10, 10 reverse.
RemainderPlacement ==
  /\ Loaded =>
       \A p \in 1..total_chunks :
         LET fwd == Len(ChunkOf(text, chunk_size, total_chunks, FALSE, p))
             bwd == Len(ChunkOf(text, chunk_size, total_chunks, TRUE, p))
         IN  /\ p < total_chunks => fwd = chunk_size
             /\ p > 1 => bwd = chunk_size
             /\ 1 <= fwd /\ fwd <= chunk_size
             /\ 1 <= bwd /\ bwd <= chunk_size
  /\ ChunkSizes(25, 10, FALSE) = <<10, 10, 5>>
  /\ ChunkSizes(25, 10, TRUE) = <<5, 10, 10>>

\* C15 witness: a forward traversal of three or more chunks has delivered its
\* short last chunk
RemainderWitness ==
  /\ pc \in {"prompt", "events"} /\ ~Reverse
  /\ total_chunks >= 3 /\ current_chunk = total_chunks
  /\ clipboard = getCurrentChunk /\ Len(clipboard) < chunk_size

\* C16 (as claimed): when the content of every chunk is in used_chunks, a
\* scan returns NoneFound; and a scan that returns NoneFound leaves the
\* position where the scan started, in the scan itself and in the empty-line
\* command that falls back to a plain Next step. It fails: started away
\* from the terminal position with every content used, the scan does not
\* return at all.
NoneFoundWhenAllUsed ==
  [][ScanRuns =>
       /\ UnusedPositions = {} => findNextUnusedChunk.res = -1
       /\ findNextUnusedChunk.res = -1 =>
            /\ findNextUnusedChunk.cur = current_chunk
            /\ current_chunk' = current_chunk]_vars

\* the part of C16 that holds: a scan that returns NoneFound leaves the
\* position where it started
NoneFoundKeepsPosition ==
  [][ScanRuns /\ findNextUnusedChunk.res = -1 =>
       /\ findNextUnusedChunk.cur = current_chunk
       /\ current_chunk' = current_chunk]_vars

\* a copy step has found every content used at the terminal position
NoneFoundWitness ==
  /\ variant = "xcli" /\ pc = "auto_exit" /\ UnusedPositions = {}
  /\ total_chunks >= 2 /\ clipboard # getCurrentChunk

\* the position is the terminal one of the effective direction
AtTerminal ==
  current_chunk = IF tail_mode # inverted THEN 1 ELSE total_chunks

\* C17: an iteration of xcli's loop whose copy step returns declares the
\* session complete exactly when, after the copy step, the position is the
\* terminal one (1 if tail_mode XOR inverted, else total_chunks) and
\* used_chunks has no fewer elements than there are chunks; the session is
\* declared complete nowhere else, so never while the position is not
\* terminal or hasUnusedChunks() is true.
AutoExitExactly ==
  /\ [][/\ variant = "xcli" /\ pc = "copy" /\ pc' # "hung" =>
             /\ pc' \in {"auto_exit", "prompt"}
             /\ pc' = "auto_exit" <=>
                  (AtTerminal' /\ Cardinality(used_chunks') >= total_chunks')
        /\ pc' \in {"auto_exit", "end_exit"} /\ pc' # pc =>
             variant = "xcli" /\ pc = "copy"]_vars
  /\ [](pc \in {"auto_exit", "end_exit"} =>
          AtTerminal /\ Cardinality(used_chunks) >= total_chunks)

\* C17 witness: the session of an inverted traversal of two or more chunks
\* has been declared complete
AutoExitWitness ==
  /\ pc = "auto_exit" /\ inverted /\ total_chunks >= 2
  /\ Cardinality(used_chunks) >= total_chunks

\* C18 (as claimed): in xcli, after a successful load, answering every
\* prompt with an empty line leads to the auto-exit (All chunks processed),
\* for every buffer and chunk size, in head mode and in tail mode. It fails
\* for buffers with repeated chunk contents.
AdvanceReachesAutoExit == Loaded ~> (pc = "auto_exit")

\* no two chunks of the buffer have the same content
DistinctChunks ==
  \A p, q \in 1..total_chunks :
    getChunkAtPosition(p) = getChunkAtPosition(q) => p = q

\* the part of C18 that holds: the same for buffers whose chunks are
\* pairwise distinct
AdvanceReachesAutoExitDistinct ==
  (Loaded /\ DistinctChunks) ~> (pc = "auto_exit")

\* C19: in xcli the copy step of the loop either writes nothing or writes
\* one chunk, the one then current, whose content was not in used_chunks,
\* and adds it to used_chunks (so that, the set shrinking only when it is
\* cleared, no content is written twice by the copy step between two
\* clearings); of the commands only R writes to the clipboard, and it writes
\* the current chunk, used or not.
CopyNeverResends ==
  [][variant = "xcli" =>
       /\ pc = "copy" =>
            \/ used_chunks' = used_chunks /\ clipboard' = clipboard
            \/ \E c \in used_chunks' \ used_chunks :
                 /\ c # <<>>
                 /\ c = getCurrentChunk'
                 /\ used_chunks' = used_chunks \cup {c}
                 /\ clipboard' \in {c, Foreign}
       /\ pc = "prompt" /\ ~Handling("R") => clipboard' = clipboard
       /\ Handling("R") => clipboard' \in {getCurrentChunk, Foreign}]_vars

\* C19 witness: in a buffer with a repeated chunk content the copy step has
\* just written the current chunk, the second content it sent
CopySkipsWitness ==
  /\ variant = "xcli" /\ pc = "prompt" /\ last_cmd = NoCmd
  /\ clipboard = getCurrentChunk /\ Cardinality(used_chunks) = 2
  /\ \E p, q \in 1..total_chunks :
       p < q /\ q < current_chunk
         /\ getChunkAtPosition(p) = getChunkAtPosition(q)

\* C20 (as claimed): after a successful load every input line other than
\* q, Q and quit is handled and the loop goes on to the next iteration. It
\* fails for the digit lines that std::stoi / std::stoul cannot hold.
NoInputIsFatal ==
  [][pc = "prompt" /\ last_cmd' # "q" => pc' = "copy"]_vars

\* C21 (as claimed): once getClipboard has taken its timeout branch it
\* returns the empty string to loadText (which fails with Clipboard is
\* empty), whether or not the task reading the clipboard ever finishes. It
\* fails: the future's destructor waits for the task.
ReadReturnsAfterTimeout ==
  (pc = "read_timed_out") ~> (pc = "load_failed")

\* the part of C21 that holds: it returns when the task does finish
ReadReturnsWhenTaskEnds ==
  (pc = "read_timed_out" /\ read_task # "stuck") ~> (pc = "load_failed")

\* C22 (as claimed): R leaves the position alone and writes the current
\* chunk, and when the next prompt is shown the position is still the same
\* and the clipboard holds that chunk (or nothing of this program if its
\* write failed), in cli and in xcli. It fails in xcli: the copy step that
\* follows R moves on to an unused chunk.
RecopyKeepsChunk ==
  [][/\ Handling("R") =>
          /\ UNCHANGED engine
          /\ clipboard' \in {getCurrentChunk, Foreign}
     /\ pc = "copy" /\ last_cmd = "R" /\ pc' = "prompt" =>
          /\ current_chunk' = current_chunk
          /\ clipboard' \in {getCurrentChunk, Foreign}]_vars

\* the part of C22 that holds: the same in cli
RecopyKeepsChunkPlain ==
  [][variant = "cli" =>
       /\ Handling("R") =>
            /\ UNCHANGED engine
            /\ clipboard' = getCurrentChunk
       /\ pc = "copy" /\ last_cmd = "R" =>
            /\ pc' = "prompt"
            /\ current_chunk' = current_chunk
            /\ clipboard' = getCurrentChunk]_vars

\* C23 (as claimed): whenever chunk_size changes at runtime, in every
\* front-end, the new value is positive and at most the buffer's length.
ResizeNeverExceedsBuffer ==
  [][Loaded /\ chunk_size' # chunk_size =>
       0 < chunk_size' /\ chunk_size' <= Len(text')]_vars

\* C23 (amended): chunk_size is positive in every state; a runtime change
\* in cli and xcli installs a value that is at most the buffer's length; a
\* runtime change in gui installs the spin box's value, which lies in
\* 100..100000 whatever the buffer's length.
ResizeWithinFrontEndLimits ==
  /\ [](chunk_size > 0)
  /\ [][Loaded /\ chunk_size' # chunk_size =>
          IF variant = "gui"
          THEN /\ chunk_size' = spin'
               /\ 100 <= chunk_size' /\ chunk_size' <= 100000
          ELSE chunk_size' <= Len(text')]_vars

\* C23 witness: the spin box has just installed a chunk size larger than the
\* buffer
SpinExceedsBufferWitness ==
  /\ variant = "gui" /\ last_cmd = "spin"
  /\ chunk_size > Len(text) /\ chunk_size = spin /\ total_chunks = 1

\* C24: tail_mode never changes; the empty line, N, P, F, L, a digit line
\* and I change nothing of buffer, chunk_size and total_chunks; inverted is
\* changed by I alone; after the load the buffer is changed by A and by the
\* gui's V alone.
NavigationFrame ==
  [][/\ tail_mode' = tail_mode
     /\ (\E op \in {"", "N", "P", "F", "L", "I", "goto"} : Handling(op)) =>
          UNCHANGED <<text, chunk_size, total_chunks>>
     /\ inverted' # inverted => Handling("I")
     /\ Loaded /\ text' # text => Handling("A") \/ Handling("V")]_vars

\* C24 witness: a digit line has just moved the position in an inverted
\* tail-mode traversal of three or more chunks
NavigationFrameWitness ==
  /\ last_cmd = "goto" /\ tail_mode /\ inverted
  /\ total_chunks >= 3 /\ current_chunk = 2

\* C25 (as claimed): whenever xcli declares the session complete, the
\* content of every chunk of the buffer as it is then is in used_chunks.
AutoExitMeansAllConsumed ==
  pc = "auto_exit" => UnusedPositions = {}

\* C26 (as claimed): in xcli, if the content of every chunk is in
\* used_chunks then hasUnusedChunks() is false, also when several positions
\* hold the same text.
AllUsedMeansNoUnused ==
  variant = "xcli" /\ Loaded /\ UnusedPositions = {} => ~hasUnusedChunks

\* C27: in every state after a successful load the current chunk is not
\* empty: its start offset is at least 0, its end offset is greater than
\* its start and at most the buffer's length, under both anchorings and
\* also when chunk_size exceeds the buffer's length; and xcli's Reached end
\* of text exit is never taken.
CurrentChunkNonEmpty ==
  /\ Loaded =>
       /\ getCurrentChunk # <<>>
       /\ 0 <= CurrentOffsets[1]
       /\ CurrentOffsets[1] < CurrentOffsets[2]
       /\ CurrentOffsets[2] <= Len(text)
       /\ Len(getCurrentChunk) = CurrentOffsets[2] - CurrentOffsets[1]
  /\ pc # "end_exit"

\* C27 witness: a buffer shorter than the chunk size has been delivered
\* whole under the reverse anchoring
CurrentChunkWitness ==
  /\ Loaded /\ Reverse /\ chunk_size > Len(text) /\ Len(text) >= 2
  /\ getCurrentChunk = text /\ clipboard = text

\* C28 (as claimed): in xcli a content enters used_chunks only when the
\* clipboard write of that content succeeded, so that the clipboard holds
\* it.
ConsumedOnlyIfWritten ==
  [][variant = "xcli" =>
       \A c \in used_chunks' \ used_chunks : clipboard' = c]_vars

\* the position met first under the effective direction
FirstPosition == IF tail_mode # inverted THEN total_chunks ELSE 1

\* C29 (as claimed): after every load, the gui's reload from the clipboard
\* included, the position is the one met first under the effective
\* direction of that moment: total_chunks if tail_mode XOR inverted, else 1.
LoadStartsAtFirst ==
  [][/\ ~Loaded /\ Loaded' => current_chunk' = FirstPosition'
     /\ \A newText \in LoadTexts \cup {clipboard} :
          KeyLoad(newText) /\ newText # <<>> =>
            current_chunk' = FirstPosition']_vars

\* the part of C29 that holds: the load at startup
InitialLoadStartsAtFirst ==
  [][~Loaded /\ Loaded' => current_chunk' = FirstPosition']_vars

====
